---- MODULE Spec2Model ----
\* Preferences code hints (extensions/default/PrefsCodeHints/main.js):
\* the activation flags, the preference registry `data`, and the three
\* provider entry points hasHints / getHints / insertHint.
\*
\* Encoding of JavaScript values
\*   - undefined and null are the marker Undefined wherever a string is expected
\*     (type tags, descriptions, preference values);
\*   - a string that the code inspects or concatenates is a sequence of
\*     one-character strings; names used only as property keys are TLA+ strings
\*     and Chars(name) gives their characters;
\*   - a JS object is a sequence of <<key, value>> pairs in insertion order
\*     (the order Object.keys returns);
\*   - a JS number n kept in a preference's `values` is the string "#n".
EXTENDS Integers, Sequences, FiniteSets, TLC

VARIABLES
    showCodeHints,        \* PreferencesManager.get("showCodeHints")
    codehintPrefHints,    \* PreferencesManager.get("codehint.PrefHints")
    activeEditor,         \* EditorManager's active editor (a document name) or NoEditor
    isPrefDocument,       \* main.js:39
    isPrefHintsEnabled,   \* main.js:40
    languages,            \* main.js:38, refreshed by languageAdded
    data,                 \* main.js:43
    editor,               \* this.editor of the hint provider
    ctxInfo,              \* this.ctxInfo of the hint provider
    call                  \* the most recent call on the module: inputs and outcome

vars == <<showCodeHints, codehintPrefHints, activeEditor, isPrefDocument,
          isPrefHintsEnabled, languages, data, editor, ctxInfo, call>>

-----------------------------------------------------------------------------
\* Bounds of the model

\* languageAdded is delivered while fewer than this many languages are known
MaxLanguages == 2

-----------------------------------------------------------------------------
\* JavaScript values

Undefined == "undefined"

Truthy(v) == v # Undefined /\ v # ""

\* a || b on string-or-undefined operands
OrElse(a, b) == IF Truthy(a) THEN a ELSE b

QuoteChars == {"\"", "'"}

Whitespace == {" ", "\t"}

\* String(undefined), as produced by undefined + "..." (main.js:337)
UndefinedChars == <<"u", "n", "d", "e", "f", "i", "n", "e", "d">>

\* The characters of the names the model uses
Chars(s) ==
    CASE s = "" -> <<>>
      [] s = "language" -> <<"l","a","n","g","u","a","g","e">>
      [] s = "path" -> <<"p","a","t","h">>
      [] s = "language.fileExtensions" ->
            <<"l","a","n","g","u","a","g","e",".","f","i","l","e",
              "E","x","t","e","n","s","i","o","n","s">>
      [] s = "language.fileNames" ->
            <<"l","a","n","g","u","a","g","e",".","f","i","l","e",
              "N","a","m","e","s">>
      [] s = "linting.prefer" ->
            <<"l","i","n","t","i","n","g",".","p","r","e","f","e","r">>
      [] s = "themes.theme" ->
            <<"t","h","e","m","e","s",".","t","h","e","m","e">>
      [] s = "closeTags" -> <<"c","l","o","s","e","T","a","g","s">>
      [] s = "whenOpening" -> <<"w","h","e","n","O","p","e","n","i","n","g">>
      [] s = "indentTags" -> <<"i","n","d","e","n","t","T","a","g","s">>
      [] s = "useTabChars" -> <<"u","s","e","T","a","b","C","h","a","r","s">>
      [] s = "spaceUnits" -> <<"s","p","a","c","e","U","n","i","t","s">>
      [] s = "javascript" -> <<"j","a","v","a","s","c","r","i","p","t">>
      [] s = "css" -> <<"c","s","s">>
      [] s = "html" -> <<"h","t","m","l">>
      [] s = "false" -> <<"f","a","l","s","e">>
      [] s = "true" -> <<"t","r","u","e">>
      [] s = "ESLint" -> <<"E","S","L","i","n","t">>
      [] s = "JSHint" -> <<"J","S","H","i","n","t">>
      [] s = "CSSLint" -> <<"C","S","S","L","i","n","t">>
      [] s = "dark" -> <<"d","a","r","k">>
      [] s = "light" -> <<"l","i","g","h","t">>
      [] s = "2" -> <<"2">>
      [] s = "4" -> <<"4">>
      [] s = "#2" -> <<"#","2">>
      [] s = "#4" -> <<"#","4">>
      [] s = "body" -> <<"b","o","d","y">>
      [] s = "div" -> <<"d","i","v">>
      [] s = "foo" -> <<"f","o","o">>
      [] s = "bar" -> <<"b","a","r">>
      [] s = "brackets.json" ->
            <<"b","r","a","c","k","e","t","s",".","j","s","o","n">>
      [] s = ".brackets.json" ->
            <<".","b","r","a","c","k","e","t","s",".","j","s","o","n">>
      [] s = "xbrackets.json" ->
            <<"x","b","r","a","c","k","e","t","s",".","j","s","o","n">>
      [] s = "package.json" -> <<"p","a","c","k","a","g","e",".","j","s","o","n">>

\* val.toString() (main.js:282): a number becomes its decimal text, a string
\* is returned as it is
toString(v) ==
    CASE v = "#2" -> "2"
      [] v = "#4" -> "4"
      [] OTHER -> v

\* Sequence helpers
Range(s) == {s[i] : i \in 1..Len(s)}

\* Objects as sequences of <<key, value>> pairs
Has(obj, k) == \E i \in 1..Len(obj) : obj[i][1] = k

Get(obj, k) == obj[CHOOSE i \in 1..Len(obj) : obj[i][1] = k][2]

Put(obj, k, v) ==
    IF Has(obj, k)
    THEN [i \in 1..Len(obj) |-> IF obj[i][1] = k THEN <<k, v>> ELSE obj[i]]
    ELSE Append(obj, <<k, v>>)

-----------------------------------------------------------------------------
\* Registry entries and preference descriptors

NoKeys == [present |-> FALSE, map |-> <<>>]

KeysOf(map) == [present |-> TRUE, map |-> map]

NoValues == [present |-> FALSE, list |-> <<>>]

ValuesOf(list) == [present |-> TRUE, list |-> list]

\* An entry of `data` (and of a `keys` map)
Entry(type, description, keys, values, valueType) ==
    [type |-> type, description |-> description, keys |-> keys,
     values |-> values, valueType |-> valueType]

Leaf(type, description) == Entry(type, description, NoKeys, NoValues, Undefined)

\* A preference as PreferencesManager.getAllPreferences() describes it
Pref(type, description, keys, values, valueType, excludeFromHints) ==
    [type |-> type, description |-> description, keys |-> keys,
     values |-> values, valueType |-> valueType,
     excludeFromHints |-> excludeFromHints]

\* option = {type: null, description: null, values: null} (main.js:216)
DefaultOption == Entry(Undefined, Undefined, NoKeys, NoValues, Undefined)

\* `data` as the module defines it (main.js:43-52)
BuiltinData ==
    << <<"language", Leaf("object", "DESCRIPTION_LANGUAGE")>>,
       <<"path", Leaf("object", "DESCRIPTION_PATH")>> >>

\* (mutant) the preference takes the place of the entry already there
Extend_Replace(target, preference) ==
    [type |-> preference.type, description |-> preference.description,
     keys |-> preference.keys, values |-> preference.values,
     valueType |-> preference.valueType]

\* $.extend(target, preference): every defined property of the preference is
\* copied over the target's; a missing target is a fresh object
Extend(target, preference) ==
    [type |-> IF preference.type # Undefined
              THEN preference.type ELSE target.type,
     description |-> IF preference.description # Undefined
                     THEN preference.description ELSE target.description,
     keys |-> IF preference.keys.present THEN preference.keys ELSE target.keys,
     values |-> IF preference.values.present THEN preference.values
                ELSE target.values,
     valueType |-> IF preference.valueType # Undefined
                   THEN preference.valueType ELSE target.valueType]

\* The body of the forEach in the constructor (main.js:171-182), folded over
\* the preferences in Object.keys order
RECURSIVE AddPreferences(_, _)
AddPreferences(d, preferences) ==
    IF preferences = <<>> THEN d
    ELSE LET pref == Head(preferences)[1]
             preference == Head(preferences)[2]
             target == IF Has(d, pref) THEN Get(d, pref) ELSE DefaultOption
             merged == Extend(target, preference)
             added == IF preference.keys.present
                      THEN [merged EXCEPT !.keys = preference.keys]
                      ELSE merged
         IN  IF preference.excludeFromHints
             THEN AddPreferences(d, Tail(preferences))
             ELSE AddPreferences(Put(d, pref, added), Tail(preferences))

\* function PrefsCodeHints() (main.js:165-183): the registry after construction
PrefsCodeHints(preferences) == AddPreferences(BuiltinData, preferences)

\* Preference sets the constructor may find defined
TypicalPreferences ==
    << <<"closeTags",
         Pref("object", "DESCRIPTION_CLOSE_TAGS",
              KeysOf(<< <<"whenOpening", Leaf("boolean", "DESCRIPTION_WHEN_OPENING")>>,
                        <<"indentTags",
                          Entry("array", Undefined, NoKeys,
                                ValuesOf(<<"body", "div">>), Undefined)>> >>),
              NoValues, Undefined, FALSE)>>,
       <<"useTabChars",
         Pref("boolean", "DESCRIPTION_USE_TAB_CHARS", NoKeys, NoValues, Undefined, FALSE)>>,
       <<"spaceUnits",
         Pref("number", "DESCRIPTION_SPACE_UNITS", NoKeys,
              ValuesOf(<<"#2", "#4">>), Undefined, FALSE)>>,
       <<"linting.prefer",
         Pref("array", "DESCRIPTION_LINTING_PREFER", NoKeys, NoValues, Undefined, FALSE)>>,
       <<"themes.theme",
         Pref("string", "DESCRIPTION_THEME", NoKeys, NoValues, Undefined, FALSE)>>,
       <<"debug",
         Pref("boolean", Undefined, NoKeys, NoValues, Undefined, TRUE)>> >>

\* A set that declares allowed values on boolean options, retypes the theme
\* key, nests an option under a language id and redefines `language`
OddPreferences ==
    << <<"language",
         Pref("object", Undefined,
              KeysOf(<< <<"css", Leaf(Undefined, "DESCRIPTION_CSS")>> >>),
              NoValues, Undefined, FALSE)>>,
       <<"useTabChars",
         Pref("boolean", Undefined, NoKeys, ValuesOf(<<"dark", "light">>),
              Undefined, FALSE)>>,
       <<"themes.theme",
         Pref("boolean", "DESCRIPTION_THEME", NoKeys, ValuesOf(<<"dark">>),
              Undefined, FALSE)>>,
       <<"linting.prefer",
         Pref("array", Undefined, NoKeys, ValuesOf(<<"ESLint">>), "string", FALSE)>>,
       <<"javascript",
         Pref("object", Undefined,
              KeysOf(<< <<"linting.prefer", Leaf("boolean", Undefined)>> >>),
              NoValues, Undefined, FALSE)>>,
       <<"path",
         Pref("object", Undefined, NoKeys, NoValues, Undefined, TRUE)>> >>

\* A set that describes `path` itself, with a type and a text of its own,
\* holds a `language` preference that is kept out of the hints, and an option
\* whose map of nested keys is empty
ReservedPreferences ==
    << <<"path",
         Pref("array", "DESCRIPTION_PATH_GLOBS", NoKeys, NoValues, Undefined, FALSE)>>,
       <<"language",
         Pref("string", "DESCRIPTION_HIDDEN",
              KeysOf(<< <<"html", Leaf("object", Undefined)>> >>),
              NoValues, Undefined, TRUE)>>,
       <<"closeTags",
         Pref("object", "DESCRIPTION_CLOSE_TAGS", KeysOf(<<>>), NoValues, Undefined, FALSE)>> >>

PreferenceSets == {<<>>, TypicalPreferences, OddPreferences, ReservedPreferences}

\* Registries a unit test may install with _setupTestEnvironment
TestPreferences ==
    { << <<"spaceUnits",
           Entry("number", Undefined, NoKeys, ValuesOf(<<"#2", "#4">>), Undefined)>>,
         <<"linting.prefer", Leaf("array", Undefined)>> >> }

\* Languages LanguageManager may know
LanguageIds == {"javascript", "css", "html"}

\* LanguageManager.getLanguages() when the module is loaded (main.js:38)
InitialLanguages == <<"javascript">>

\* `languages` as an object: a Language carries neither type nor description
LanguagesObject(langs) == [i \in 1..Len(langs) |-> <<langs[i], Leaf(Undefined, Undefined)>>]

-----------------------------------------------------------------------------
\* Documents and editors

\* An editor is identified by the name of its document
DocumentNames == {"brackets.json", ".brackets.json", "xbrackets.json", "package.json"}

NoEditor == "no editor"

\* editor.getModeForSelection()
Modes == {"application/json", "javascript"}

PrefValues == {"true", "false", Undefined}

\* _isPrefDocument (main.js:92-94): /^\.?brackets\.json$/ on the file name
IsPrefDocumentName(name) ==
    LET c == Chars(name)
        rest == IF c # <<>> /\ Head(c) = "." THEN Tail(c) ELSE c
    IN  rest = Chars("brackets.json")

\* _isPrefHintsEnabled (main.js:78-82) for the given flag and settings
IsPrefHintsEnabledFor(prefDocument, show, prefHints) ==
    prefDocument /\ show # "false" /\ prefHints # "false"

-----------------------------------------------------------------------------
\* Contexts, as JSONUtils.getContextInfo returns them

TOKEN_KEY == "TOKEN_KEY"

TOKEN_VALUE == "TOKEN_VALUE"

\* tokenType of a context: a key, a value, or not set
TokenTypes == {TOKEN_KEY, TOKEN_VALUE, Undefined}

NullCtx == [null |-> TRUE]

Token(string, start) ==
    [present |-> TRUE, string |-> string, start |-> start, end |-> start + Len(string)]

NoToken == [present |-> FALSE, string |-> <<>>, start |-> 0, end |-> 0]

Context(tokenType, token, offset, keyName, parentKeyName, isArray, exclusionList, shouldReplace) ==
    [null |-> FALSE, tokenType |-> tokenType, token |-> token, offset |-> offset,
     keyName |-> keyName, parentKeyName |-> parentKeyName, isArray |-> isArray,
     exclusionList |-> exclusionList, shouldReplace |-> shouldReplace]

\* parentKeyBlacklist (main.js:59-63)
parentKeyBlacklist == <<"language.fileExtensions", "language.fileNames", "path">>

\* Parent keys a context may name
ParentNames == {"", "closeTags", "language", "language.fileExtensions",
                "language.fileNames", "path", "javascript"}

\* An opening quote with the cursor right after it
QuoteToken == Token(<<"\"">>, 0)

\* Contexts offered to hasHints: only tokenType and parentKeyName are read there
GateContexts ==
    {NullCtx} \cup
    {Context(tt, QuoteToken, 1, "", parent, FALSE, <<>>, FALSE) :
        tt \in TokenTypes,
        parent \in {"", "language", "language.fileExtensions",
                    "language.fileNames", "path"}}

-----------------------------------------------------------------------------
\* Initial state: the module is loaded and appReady has constructed the provider

Init ==
    /\ showCodeHints \in PrefValues
    /\ codehintPrefHints \in PrefValues
    /\ activeEditor = NoEditor
    /\ isPrefDocument = FALSE
    /\ isPrefHintsEnabled = FALSE
    /\ languages = InitialLanguages
    /\ \E preferences \in PreferenceSets : data = PrefsCodeHints(preferences)
    /\ editor = NoEditor
    /\ ctxInfo = NullCtx
    /\ call = [op |-> "appReady"]

-----------------------------------------------------------------------------
\* Notifications

\* PreferencesManager "change" of showCodeHints (main.js:97-99)
ShowCodeHintsChange(v) ==
    /\ v # showCodeHints
    /\ showCodeHints' = v
    /\ isPrefHintsEnabled' = IsPrefHintsEnabledFor(isPrefDocument, v, codehintPrefHints)
    /\ call' = [op |-> "showCodeHints"]
    /\ UNCHANGED <<codehintPrefHints, activeEditor, isPrefDocument, languages,
                   data, editor, ctxInfo>>

\* PreferencesManager "change" of codehint.PrefHints (main.js:100-102)
PrefHintsChange(v) ==
    /\ v # codehintPrefHints
    /\ codehintPrefHints' = v
    /\ isPrefHintsEnabled' = IsPrefHintsEnabledFor(isPrefDocument, showCodeHints, v)
    /\ call' = [op |-> "codehint.PrefHints"]
    /\ UNCHANGED <<showCodeHints, activeEditor, isPrefDocument, languages,
                   data, editor, ctxInfo>>

\* EditorManager "activeEditorChange" (main.js:103-108); e = NoEditor is the
\* notification without an editor
ActiveEditorChange(e) ==
    /\ e # activeEditor
    /\ activeEditor' = e
    /\ isPrefDocument' = IF e # NoEditor THEN IsPrefDocumentName(e) ELSE isPrefDocument
    /\ isPrefHintsEnabled' =
           IsPrefHintsEnabledFor(isPrefDocument', showCodeHints, codehintPrefHints)
    /\ call' = [op |-> "activeEditorChange"]
    /\ UNCHANGED <<showCodeHints, codehintPrefHints, languages, data, editor, ctxInfo>>

\* LanguageManager "languageAdded" (main.js:109-111)
LanguageAdded(id) ==
    /\ Len(languages) < MaxLanguages
    /\ id \notin Range(languages)
    /\ languages' = Append(languages, id)
    /\ call' = [op |-> "languageAdded"]
    /\ UNCHANGED <<showCodeHints, codehintPrefHints, activeEditor, isPrefDocument,
                   isPrefHintsEnabled, data, editor, ctxInfo>>

\* _setupTestEnvironment (main.js:411-414)
SetupTestEnvironment(testDocument, testPreferences) ==
    /\ isPrefHintsEnabled' = IsPrefDocumentName(testDocument)
    /\ data' = testPreferences
    /\ call' = [op |-> "_setupTestEnvironment"]
    /\ UNCHANGED <<showCodeHints, codehintPrefHints, activeEditor, isPrefDocument,
                   languages, editor, ctxInfo>>

-----------------------------------------------------------------------------
\* hasHints (main.js:192-207)

\* (mutant) the deny-list applied whatever the token type
ContextOffersHints_AnyTokenType(ctx) ==
    IF ~ctx.null /\ Truthy(ctx.tokenType)
    THEN ctx.parentKeyName \notin Range(parentKeyBlacklist)
    ELSE FALSE

\* (mutant) no deny-list
ContextOffersHints_NoDenyList(ctx) == ~ctx.null /\ Truthy(ctx.tokenType)

\* The test of lines 197-204 on the context just computed
ContextOffersHints(ctx) ==
    IF ~ctx.null /\ Truthy(ctx.tokenType)
    THEN ~(ctx.tokenType = TOKEN_KEY /\ ctx.parentKeyName \in Range(parentKeyBlacklist))
    ELSE FALSE

\* CodeHintManager asks the provider about the editor the user types in, the
\* active one; `ctx` is what JSONUtils.getContextInfo answers for its cursor
HasHints(mode, ctx) ==
    /\ activeEditor # NoEditor
    /\ IF isPrefHintsEnabled /\ mode = "application/json"
       THEN /\ editor' = activeEditor
            /\ ctxInfo' = ctx
            /\ call' = [op |-> "hasHints", mode |-> mode, ctx |-> ctx,
                        result |-> ContextOffersHints(ctx)]
       ELSE /\ call' = [op |-> "hasHints", mode |-> mode, ctx |-> ctx,
                        result |-> FALSE]
            /\ UNCHANGED <<editor, ctxInfo>>
    /\ UNCHANGED <<showCodeHints, codehintPrefHints, activeEditor, isPrefDocument,
                   isPrefHintsEnabled, languages, data>>

\* The activation gate and everything that moves it
NextGate ==
    \/ \E v \in PrefValues : ShowCodeHintsChange(v)
    \/ \E v \in PrefValues : PrefHintsChange(v)
    \/ \E e \in DocumentNames \cup {NoEditor} : ActiveEditorChange(e)
    \/ \E d \in DocumentNames, t \in TestPreferences : SetupTestEnvironment(d, t)
    \/ \E mode \in Modes, ctx \in GateContexts : HasHints(mode, ctx)

\* The gate is independent of the registry's content: one preference set
InitGate == Init /\ data = PrefsCodeHints(TypicalPreferences)

SpecGate == InitGate /\ [][NextGate]_vars

\* The gate as the application drives it: the three notifications and
\* hasHints, without the unit-test hook
NextNotify ==
    \/ \E v \in PrefValues : ShowCodeHintsChange(v)
    \/ \E v \in PrefValues : PrefHintsChange(v)
    \/ \E e \in DocumentNames \cup {NoEditor} : ActiveEditorChange(e)
    \/ \E mode \in Modes, ctx \in GateContexts : HasHints(mode, ctx)

SpecNotify == InitGate /\ [][NextNotify]_vars

-----------------------------------------------------------------------------
\* Collaborators of getHints: JSONUtils, StringMatch, ThemeManager, CodeInspection

\* JSONUtils.stripQuotes: drops one leading and one trailing quote character
stripQuotes(s) ==
    LET a == IF s # <<>> /\ Head(s) \in QuoteChars THEN Tail(s) ELSE s
    IN  IF a # <<>> /\ a[Len(a)] \in QuoteChars THEN SubSeq(a, 1, Len(a) - 1) ELSE a

\* JSONUtils.regexAllowedChars.test: a lone colon, comma or opening bracket,
\* or white-space only
regexAllowedChars(s) ==
    \/ Len(s) = 1 /\ s[1] \in {":", ",", "["}
    \/ s # <<>> /\ \A i \in 1..Len(s) : s[i] \in Whitespace

\* String.prototype.trim
RECURSIVE trimLeft(_)
trimLeft(s) == IF s # <<>> /\ Head(s) \in Whitespace THEN trimLeft(Tail(s)) ELSE s

RECURSIVE trimRight(_)
trimRight(s) ==
    IF s # <<>> /\ s[Len(s)] \in Whitespace THEN trimRight(SubSeq(s, 1, Len(s) - 1)) ELSE s

trim(s) == trimRight(trimLeft(s))

\* String.prototype.substr(0, n)
substr0(s, n) == SubSeq(s, 1, IF n < Len(s) THEN n ELSE Len(s))

\* Letters are compared without case by the matcher
Lower(c) ==
    CASE c = "E" -> "e" [] c = "S" -> "s" [] c = "L" -> "l" [] c = "J" -> "j"
      [] c = "H" -> "h" [] c = "C" -> "c" [] c = "T" -> "t" [] c = "N" -> "n"
      [] c = "O" -> "o" [] c = "U" -> "u"
      [] OTHER -> c

\* The characters of `query` occur in `str`, in order
RECURSIVE IsSubsequence(_, _)
IsSubsequence(query, str) ==
    IF query = <<>> THEN TRUE
    ELSE IF str = <<>> THEN FALSE
    ELSE IF Lower(Head(query)) = Lower(Head(str))
         THEN IsSubsequence(Tail(query), Tail(str))
         ELSE IsSubsequence(query, Tail(str))

\* StringMatch.stringMatch(str, query, ...) is truthy: an empty query matches
\* every string, any other query must be found in it
stringMatch(str, query) == IsSubsequence(query, Chars(str))

IsPrefixMatch(str, query) ==
    /\ Len(query) <= Len(Chars(str))
    /\ \A i \in 1..Len(query) : Lower(query[i]) = Lower(Chars(str)[i])

\* StringMatch.basicMatchSort: prefix matches first, registration order kept
\* among equals
RECURSIVE SelectHints(_, _, _)
SelectHints(hints, query, prefix) ==
    IF hints = <<>> THEN <<>>
    ELSE IF IsPrefixMatch(Head(hints).value, query) = prefix
         THEN <<Head(hints)>> \o SelectHints(Tail(hints), query, prefix)
         ELSE SelectHints(Tail(hints), query, prefix)

basicMatchSort(hints, query) ==
    SelectHints(hints, query, TRUE) \o SelectHints(hints, query, FALSE)

\* ThemeManager.getAllThemes() names
ThemeNames == <<"light", "dark">>

\* CodeInspection.getProviderIDsForLanguage
getProviderIDsForLanguage(id) ==
    CASE id = "javascript" -> <<"JSHint", "ESLint">>
      [] id = "css" -> <<"CSSLint">>
      [] OTHER -> <<>>

-----------------------------------------------------------------------------
\* getHints (main.js:215-305)

\* (mutant) the typed text is the query whatever characters it holds
QueryOf_NoReset(ctx) == trim(stripQuotes(substr0(ctx.token.string, ctx.offset)))

\* Lines 221-224
QueryOf(ctx) ==
    LET q == trim(stripQuotes(substr0(ctx.token.string, ctx.offset)))
    IN  IF regexAllowedChars(q) THEN <<>> ELSE q

Hint(value, type, description) ==
    [value |-> value, type |-> type, description |-> description]

\* (mutant) the language identifiers come before the nested keys
KeySource_LanguagesFirst(d, ctx) ==
    IF ctx.parentKeyName = "language" THEN "languages"
    ELSE IF Has(d, ctx.parentKeyName) /\ Get(d, ctx.parentKeyName).keys.present
    THEN "nested"
    ELSE "root"

\* Which branch of lines 230-237 supplies the keys
KeySource(d, ctx) ==
    IF Has(d, ctx.parentKeyName) /\ Get(d, ctx.parentKeyName).keys.present
    THEN "nested"
    ELSE IF ctx.parentKeyName = "language" THEN "languages" ELSE "root"

\* `keys` after lines 230-237
KeysFor(d, langs, ctx) ==
    CASE KeySource(d, ctx) = "nested" -> Get(d, ctx.parentKeyName).keys.map
      [] KeySource(d, ctx) = "languages" -> LanguagesObject(langs)
      [] OTHER -> d

\* (mutant) the exclusion list is not consulted
KeyHints_NoExclusion(keys, optionType, ctx, query) ==
    LET kept == SelectSeq(keys, LAMBDA kv : stringMatch(kv[1], query))
    IN  [i \in 1..Len(kept) |->
            Hint(kept[i][1], OrElse(kept[i][2].type, optionType),
                 OrElse(kept[i][2].description, Undefined))]

\* The $.map of lines 239-248
KeyHints(keys, optionType, ctx, query) ==
    LET kept == SelectSeq(keys, LAMBDA kv :
                    /\ kv[1] \notin Range(ctx.exclusionList)
                    /\ stringMatch(kv[1], query))
    IN  [i \in 1..Len(kept) |->
            Hint(kept[i][1], OrElse(kept[i][2].type, optionType),
                 OrElse(kept[i][2].description, Undefined))]

\* (mutant) the root entry named keyName comes before the nested one
OptionFor_RootFirst(d, ctx) ==
    IF Has(d, ctx.keyName) THEN Get(d, ctx.keyName)
    ELSE IF /\ Has(d, ctx.parentKeyName)
            /\ Get(d, ctx.parentKeyName).keys.present
            /\ Has(Get(d, ctx.parentKeyName).keys.map, ctx.keyName)
    THEN Get(Get(d, ctx.parentKeyName).keys.map, ctx.keyName)
    ELSE DefaultOption

\* `option` after lines 253-258
OptionFor(d, ctx) ==
    IF /\ Has(d, ctx.parentKeyName)
       /\ Get(d, ctx.parentKeyName).keys.present
       /\ Has(Get(d, ctx.parentKeyName).keys.map, ctx.keyName)
    THEN Get(Get(d, ctx.parentKeyName).keys.map, ctx.keyName)
    ELSE IF Has(d, ctx.keyName) THEN Get(d, ctx.keyName) ELSE DefaultOption

\* (mutant) a declared list of allowed values is looked at before the type
ValueSource_ValuesFirst(option, langs, ctx) ==
    IF option.values.present THEN "values"
    ELSE IF option.type = "boolean" THEN "boolean"
    ELSE IF /\ ctx.isArray
            /\ ctx.keyName = "linting.prefer"
            /\ ctx.parentKeyName \in Range(langs)
         THEN "lint"
    ELSE IF ctx.keyName = "themes.theme" THEN "themes"
    ELSE IF ctx.parentKeyName \in {"language.fileExtensions", "language.fileNames"}
         THEN "languages"
    ELSE "none"

\* Which branch of lines 261-277 supplies the values
ValueSource(option, langs, ctx) ==
    IF option.type = "boolean" THEN "boolean"
    ELSE IF /\ option.values.present
            /\ \/ option.type \in {"number", "string"}
               \/ option.type = "array" /\ ctx.isArray
         THEN "values"
    ELSE IF /\ ctx.isArray
            /\ ctx.keyName = "linting.prefer"
            /\ ctx.parentKeyName \in Range(langs)
         THEN "lint"
    ELSE IF ctx.keyName = "themes.theme" THEN "themes"
    ELSE IF ctx.parentKeyName \in {"language.fileExtensions", "language.fileNames"}
         THEN "languages"
    ELSE "none"

\* (mutant) the lint providers of every known language, not of the parent's
ValuesFor_LintOfAllLanguages(option, langs, ctx) ==
    CASE ValueSource(option, langs, ctx) = "boolean" -> <<"false", "true">>
      [] ValueSource(option, langs, ctx) = "values" -> option.values.list
      [] ValueSource(option, langs, ctx) = "lint" ->
            IF Len(langs) > 1
            THEN getProviderIDsForLanguage(langs[1]) \o getProviderIDsForLanguage(langs[2])
            ELSE getProviderIDsForLanguage(ctx.parentKeyName)
      [] ValueSource(option, langs, ctx) = "themes" -> ThemeNames
      [] ValueSource(option, langs, ctx) = "languages" -> langs

\* `values` after lines 261-277 (ValueSource is not "none")
ValuesFor(option, langs, ctx) ==
    CASE ValueSource(option, langs, ctx) = "boolean" -> <<"false", "true">>
      [] ValueSource(option, langs, ctx) = "values" -> option.values.list
      [] ValueSource(option, langs, ctx) = "lint" ->
            getProviderIDsForLanguage(ctx.parentKeyName)
      [] ValueSource(option, langs, ctx) = "themes" -> ThemeNames
      [] ValueSource(option, langs, ctx) = "languages" -> langs

\* Lines 279-284
ConvertedValues(option, values) ==
    IF option.type = "number" \/ option.valueType = "number"
    THEN [i \in 1..Len(values) |-> toString(values[i])]
    ELSE values

\* The $.map of lines 287-294
ValueHints(option, values, query) ==
    LET kept == SelectSeq(values, LAMBDA v : stringMatch(v, query))
    IN  [i \in 1..Len(kept) |->
            Hint(kept[i], OrElse(option.valueType, option.type),
                 OrElse(option.description, Undefined))]

\* formatHints (main.js:122-160): the items handed to the hint list; an item
\* carries its type only when some hint has metadata
formatHints(hints, query) ==
    LET hasMetadata == \E i \in 1..Len(hints) :
                           Truthy(hints[i].type) \/ Truthy(hints[i].description)
        sorted == basicMatchSort(hints, query)
    IN  [i \in 1..Len(sorted) |->
            [text |-> sorted[i].value,
             type |-> IF hasMetadata THEN sorted[i].type ELSE Undefined,
             description |-> IF hasMetadata THEN sorted[i].description ELSE Undefined]]

\* What getHints returns and what it computed on the way, for a context
GetHintsOutcome(d, langs, ctx) ==
    IF ctx.null \/ ~ctx.token.present
    THEN [returned |-> "null", branch |-> "none", source |-> "none",
          query |-> <<>>, values |-> <<>>, hints |-> <<>>]
    ELSE LET query == QueryOf(ctx) IN
         IF ctx.tokenType = TOKEN_KEY
         THEN LET optionType == IF KeySource(d, ctx) = "languages"
                                THEN "object" ELSE Undefined
              IN  [returned |-> "hints", branch |-> "key",
                   source |-> KeySource(d, ctx), query |-> query,
                   values |-> <<>>,
                   hints |-> formatHints(
                       KeyHints(KeysFor(d, langs, ctx), optionType, ctx, query), query)]
         ELSE IF ctx.tokenType = TOKEN_VALUE
         THEN LET option == OptionFor(d, ctx)
                  source == ValueSource(option, langs, ctx)
              IN  IF source = "none"
                  THEN [returned |-> "null", branch |-> "value", source |-> source,
                        query |-> query, values |-> <<>>, hints |-> <<>>]
                  ELSE LET values == ConvertedValues(option, ValuesFor(option, langs, ctx))
                       IN  [returned |-> "hints", branch |-> "value",
                            source |-> source, query |-> query, values |-> values,
                            hints |-> formatHints(ValueHints(option, values, query), query)]
         ELSE [returned |-> "hints", branch |-> "none", source |-> "none",
               query |-> query, values |-> <<>>, hints |-> <<>>]

\* getHints is asked after hasHints has accepted an editor
GetHints(ctx) ==
    /\ editor # NoEditor
    /\ ctxInfo' = ctx
    /\ call' = [op |-> "getHints"] @@ GetHintsOutcome(data, languages, ctx)
    /\ UNCHANGED <<showCodeHints, codehintPrefHints, activeEditor, isPrefDocument,
                   isPrefHintsEnabled, languages, data, editor>>

\* Sibling keys already present in the object under the cursor
ExclusionLists == {<<>>, <<"language", "whenOpening", "javascript">>,
                   <<"path", "linting.prefer", "indentTags", "css">>}

\* Keys whose value a context may ask for
KeyNames == {"useTabChars", "spaceUnits", "linting.prefer", "themes.theme",
             "whenOpening", "indentTags", "txt"}

\* Tokens under the cursor, with the cursor's offset in them: an opening quote,
\* a quote and a letter, a colon
QueryTokens == {<<Token(<<"\"">>, 0), 1>>, <<Token(<<"\"", "l">>, 0), 2>>,
                <<Token(<<":">>, 0), 1>>}

\* The same under a value: a quote and a letter, a colon
ValueQueryTokens == {<<Token(<<"\"", "l">>, 0), 2>>, <<Token(<<":">>, 0), 1>>}

\* Parents of the key whose value is asked for
ValueParentNames == {"", "closeTags", "javascript", "css",
                     "language.fileExtensions", "language.fileNames"}

HintContexts ==
    {NullCtx, Context(TOKEN_KEY, NoToken, 0, "", "", FALSE, <<>>, FALSE)}
    \cup {Context(Undefined, t[1], t[2], "", "", FALSE, <<>>, FALSE) : t \in QueryTokens}
    \cup {Context(TOKEN_KEY, t[1], t[2], "", parent, FALSE, excl, FALSE) :
            t \in QueryTokens, parent \in ParentNames, excl \in ExclusionLists}
    \cup {Context(TOKEN_VALUE, t[1], t[2], key, parent, isArray, <<>>, FALSE) :
            t \in ValueQueryTokens, key \in KeyNames, parent \in ValueParentNames,
            isArray \in BOOLEAN}

\* The state once hints are active in a preferences document: the settings
\* allow hints, brackets.json is the active editor and hasHints has accepted it
InitHints ==
    /\ showCodeHints = "true"
    /\ codehintPrefHints = "true"
    /\ activeEditor = "brackets.json"
    /\ isPrefDocument = TRUE
    /\ isPrefHintsEnabled = TRUE
    /\ languages = InitialLanguages
    /\ \E preferences \in PreferenceSets : data = PrefsCodeHints(preferences)
    /\ editor = "brackets.json"
    /\ ctxInfo = Context(TOKEN_KEY, QuoteToken, 1, "", "", FALSE, <<>>, FALSE)
    /\ call = [op |-> "hasHints", mode |-> "application/json", ctx |-> ctxInfo,
               result |-> TRUE]

\* Candidate resolution and everything that changes what it reads
NextHints ==
    \/ \E ctx \in HintContexts : GetHints(ctx)
    \/ \E id \in LanguageIds : LanguageAdded(id)
    \/ \E d \in DocumentNames, t \in TestPreferences : SetupTestEnvironment(d, t)

SpecHints == InitHints /\ [][NextHints]_vars

-----------------------------------------------------------------------------
\* insertHint (main.js:313-398)

\* Type tags a hint item may carry; "regexp" stands for a tag the switch of
\* lines 343-355 does not know
TypeTags == {Undefined, "object", "array", "string", "boolean", "number", "regexp"}

\* String(x) for a character or undefined, as + applies it (main.js:337)
StringOf(x) == IF x = Undefined THEN UndefinedChars ELSE <<x>>

\* charAt(0)
FirstChar(s) == IF s = <<>> THEN "" ELSE Head(s)

\* document.replaceRange(text, start, end) on the cursor's line
replaceRange(line, text, startCh, endCh) ==
    SubSeq(line, 1, startCh) \o text \o SubSeq(line, endCh + 1, Len(line))

\* Where the editor leaves a cursor that was inside the replaced range: at the
\* end of the inserted text
CursorAfterReplace(ch, text, startCh, endCh) ==
    IF ch < startCh THEN ch
    ELSE IF ch <= endCh THEN startCh + Len(text)
    ELSE ch + Len(text) - (endCh - startCh)

\* Lines 343-355
BodyFor(type) ==
    CASE type = "object" -> <<"{", "}">>
      [] type = "array" -> <<"[", "]">>
      [] type = "string" -> <<"\"", "\"">>
      [] OTHER -> <<>>

\* quoteChar after lines 329-334: set only when the token starts with a quote
KeyQuoteChar(token) ==
    IF FirstChar(token.string) \in QuoteChars THEN FirstChar(token.string) ELSE Undefined

\* The text inserted for a key (lines 337-356)
KeyCompletion(ctx, completion, type) ==
    LET quoteChar == KeyQuoteChar(ctx.token)
        quoted == StringOf(quoteChar) \o completion \o StringOf(quoteChar)
    IN  IF ~ctx.shouldReplace
        THEN quoted \o <<":", " ">> \o BodyFor(type)
        ELSE quoted

\* (mutant) a new session whenever a body type is given
KeyContinues_AlwaysForBody(ctx, type) == type # "object"

\* The value returned for a key (lines 363-372)
KeyContinues(ctx, type) ==
    IF type \in {"object", "array", "string"}
    THEN type # "object" /\ ~ctx.shouldReplace
    ELSE TRUE

\* (mutant) whole-token replacement tested before the white-space token
ValueSpan_ReplaceFirst(ctx, ch) ==
    IF ctx.shouldReplace THEN <<ctx.token.start, ctx.token.end>>
    ELSE IF regexAllowedChars(ctx.token.string) THEN <<ch, ch>>
    ELSE <<ch - ctx.offset, ctx.token.end>>

\* <<start.ch, end.ch>> for a value (lines 375-383)
ValueSpan(ctx, ch) ==
    IF regexAllowedChars(ctx.token.string) THEN <<ch, ch>>
    ELSE IF ctx.shouldReplace THEN <<ctx.token.start, ctx.token.end>>
    ELSE <<ch - ctx.offset, ctx.token.end>>

\* (mutant) every value is quoted
ValueCompletion_AlwaysQuoted(ctx, completion, type) ==
    LET startChar == FirstChar(ctx.token.string)
        quoteChar == IF startChar \in QuoteChars THEN startChar ELSE "\""
    IN  <<quoteChar>> \o completion \o <<quoteChar>>

\* The text inserted for a value (lines 385-393)
ValueCompletion(ctx, completion, type) ==
    IF type = Undefined \/ type = "string"
    THEN LET startChar == FirstChar(ctx.token.string)
             quoteChar == IF startChar \in QuoteChars THEN startChar ELSE "\""
         IN  <<quoteChar>> \o completion \o <<quoteChar>>
    ELSE completion

\* What insertHint does to the cursor's line and what it returns.
\* raised: a TypeError left the function; returned: "true", "false", or
\* "undefined" when the function ends without a return statement;
\* startLine, endLine: start.line and end.line after line 326
InsertHintOutcome(ctx, pos, line, completion, type) ==
    LET at == [startLine |-> pos.line, endLine |-> pos.line] IN
    IF ctx.null
    THEN at @@ [raised |-> TRUE, returned |-> "none", text |-> <<>>, startCh |-> -1,
                endCh |-> -1, line |-> line, cursor |-> pos.ch, cursorSet |-> FALSE]
    ELSE IF ctx.tokenType = TOKEN_KEY
    THEN LET text == KeyCompletion(ctx, completion, type)
             startCh == pos.ch - ctx.offset
             endCh == ctx.token.end
             placed == type \in {"object", "array", "string"}
         IN  at @@ [raised |-> FALSE,
                    returned |-> IF KeyContinues(ctx, type) THEN "true" ELSE "false",
                    text |-> text, startCh |-> startCh, endCh |-> endCh,
                    line |-> replaceRange(line, text, startCh, endCh),
                    cursor |-> IF placed THEN startCh + Len(text) - 1
                               ELSE CursorAfterReplace(pos.ch, text, startCh, endCh),
                    cursorSet |-> placed]
    ELSE IF ctx.tokenType = TOKEN_VALUE
    THEN LET text == ValueCompletion(ctx, completion, type)
             span == ValueSpan(ctx, pos.ch)
         IN  at @@ [raised |-> FALSE, returned |-> "false", text |-> text,
                    startCh |-> span[1], endCh |-> span[2],
                    line |-> replaceRange(line, text, span[1], span[2]),
                    cursor |-> CursorAfterReplace(pos.ch, text, span[1], span[2]),
                    cursorSet |-> FALSE]
    ELSE at @@ [raised |-> FALSE, returned |-> "undefined", text |-> <<>>,
                startCh |-> -1, endCh |-> -1, line |-> line, cursor |-> pos.ch,
                cursorSet |-> FALSE]

\* insertHint(completion): `pos` is the cursor of this.editor and `line` the
\* text of its line, `ctx` what JSONUtils.getContextInfo answers there, `type`
\* the tag of the chosen item (Undefined for a plain string)
InsertHint(ctx, pos, line, completion, type) ==
    /\ editor # NoEditor
    /\ call' = [op |-> "insertHint", ctx |-> ctx, pos |-> pos, before |-> line,
                completion |-> completion, type |-> type]
               @@ InsertHintOutcome(ctx, pos, line, Chars(completion), type)
    /\ UNCHANGED <<showCodeHints, codehintPrefHints, activeEditor, isPrefDocument,
                   isPrefHintsEnabled, languages, data, editor, ctxInfo>>

\* Lines under the cursor, each with its line number, the text before the
\* token and the token: an empty line, a double-quoted and a single-quoted
\* string, white-space, a bare word
InsertLines ==
    { [no |-> 0, before |-> <<>>, token |-> <<>>],
      [no |-> 1, before |-> <<>>, token |-> <<"\"", "b", "\"">>],
      [no |-> 2, before |-> <<" ">>, token |-> <<"'", "b", "'">>],
      [no |-> 3, before |-> <<"{">>, token |-> <<" ">>],
      [no |-> 4, before |-> <<" ">>, token |-> <<"b">>] }

\* Cursor columns in a token and the offsets a context may report for them:
\* the cursor's distance from the token's start, or none
InsertPositions(l) ==
    {p \in (Len(l.before)..(Len(l.before) + Len(l.token))) \X (0..Len(l.token)) :
        p[2] \in {0, p[1] - Len(l.before)}}

\* What insertHint may be called with
InsertInputs ==
    UNION {{[ctx |-> Context(tt, Token(l.token, Len(l.before)), p[2], "", "", FALSE,
                             <<>>, sr),
             pos |-> [line |-> l.no, ch |-> p[1]],
             line |-> l.before \o l.token] :
               tt \in {TOKEN_KEY, TOKEN_VALUE}, sr \in BOOLEAN, p \in InsertPositions(l)} :
           l \in InsertLines}
    \cup {[ctx |-> c, pos |-> [line |-> 1, ch |-> 2], line |-> <<"\"", "b", "\"">>] :
            c \in {NullCtx,
                   Context(Undefined, Token(<<"\"", "b", "\"">>, 0), 2, "", "",
                           FALSE, <<>>, FALSE)}}

NextInsert ==
    \E inp \in InsertInputs, completion \in {"foo", "bar"}, type \in TypeTags :
        InsertHint(inp.ctx, inp.pos, inp.line, completion, type)

\* The provider holds an editor of the preferences document (see InitHints);
\* insertHint reads nothing else of the module
InitInsert == InitHints /\ data = PrefsCodeHints(TypicalPreferences)

SpecInsert == InitInsert /\ [][NextInsert]_vars

-----------------------------------------------------------------------------
\* The module as a whole.  SpecGate, SpecHints and SpecInsert are its three
\* components: each takes the steps of one entry point together with the
\* notifications that change what it reads; SpecHints and SpecInsert start
\* where the gate has let an editor of brackets.json through, a state that
\* SpecGate reaches (GateReachesActiveSession).  SpecNotify is SpecGate
\* without the unit-test hook.

Next == NextGate \/ NextHints \/ NextInsert

Spec == Init /\ [][Next]_vars

\* Violated under SpecGate: the initial state of SpecInsert is reached
GateReachesActiveSession == ~InitInsert

-----------------------------------------------------------------------------
\* Properties of the activation gate

\* The settings as PreferencesManager holds them now
HintsGloballyEnabled == showCodeHints # "false" /\ codehintPrefHints # "false"

\* The structural half of the gate, in the words of the specification
StructuralTestPasses(mode, ctx) ==
    /\ mode = "application/json"
    /\ ~ctx.null
    /\ ctx.tokenType \in {TOKEN_KEY, TOKEN_VALUE}
    /\ ~(/\ ctx.tokenType = TOKEN_KEY
         /\ ctx.parentKeyName \in {"language.fileExtensions", "language.fileNames", "path"})

\* C2 as stated: hasHints answers true exactly when hints are globally
\* enabled, the current document is the preferences document and the
\* structural test passes.  _setupTestEnvironment sets the cached flag from the
\* test document alone, so the answer can differ from the settings.
C2_HasHintsIffEnabledAndPrefDocument ==
    call.op = "hasHints" =>
        (call.result <=> (/\ HintsGloballyEnabled
                          /\ isPrefDocument
                          /\ StructuralTestPasses(call.mode, call.ctx)))

\* C2 amended: hasHints answers true exactly when the cached flag
\* isPrefHintsEnabled is set at the time of the call, the mode is JSON, the
\* context is non-null with a defined token type, and the token is not a KEY
\* under a deny-listed parent.
C2_HasHintsIffCachedFlag ==
    call.op = "hasHints" =>
        (call.result <=> (isPrefHintsEnabled /\ StructuralTestPasses(call.mode, call.ctx)))

\* C2 witness: hasHints answered true for a key at the root of the active
\* preferences document while the settings allow hints
C2_Witness ==
    /\ call.op = "hasHints"
    /\ call.result
    /\ ~call.ctx.null
    /\ call.ctx.tokenType = TOKEN_KEY
    /\ call.ctx.parentKeyName = ""
    /\ HintsGloballyEnabled
    /\ IsPrefDocumentName(activeEditor)

\* C3: for a KEY context whose parent is language.fileExtensions,
\* language.fileNames or path, hasHints answers false in every state; for a
\* VALUE context under the same parent the deny-list does not block: the
\* answer is true whenever the flag is set and the mode is JSON.
C3_DenyListBlocksKeysOnly ==
    (call.op = "hasHints" /\ ~call.ctx.null
        /\ call.ctx.parentKeyName \in {"language.fileExtensions", "language.fileNames", "path"})
    => /\ call.ctx.tokenType = TOKEN_KEY => ~call.result
       /\ call.ctx.tokenType = TOKEN_VALUE =>
              (call.result <=> (isPrefHintsEnabled /\ call.mode = "application/json"))

\* C3 witness: everything else allows hints and a KEY under
\* language.fileExtensions was refused
C3_Witness ==
    /\ call.op = "hasHints"
    /\ isPrefHintsEnabled
    /\ call.mode = "application/json"
    /\ ~call.ctx.null
    /\ call.ctx.tokenType = TOKEN_KEY
    /\ call.ctx.parentKeyName = "language.fileExtensions"
    /\ ~call.result

-----------------------------------------------------------------------------
\* Properties of candidate resolution

HintTexts(hints) == [i \in 1..Len(hints) |-> hints[i].text]

\* C1: in a KEY context getHints returns no key that is in the context's
\* exclusionList, whichever source supplied the keys.
C1_NoExcludedKeyIsHinted ==
    (call.op = "getHints" /\ call.branch = "key") =>
        \A i \in 1..Len(call.hints) :
            call.hints[i].text \notin Range(ctxInfo.exclusionList)

\* C1 witness: the language identifiers supplied the keys, one of them is
\* excluded and another one is hinted
C1_Witness ==
    /\ call.op = "getHints"
    /\ call.branch = "key"
    /\ call.source = "languages"
    /\ "javascript" \in Range(ctxInfo.exclusionList)
    /\ "javascript" \in Range(languages)
    /\ call.hints # <<>>

\* C4: in a VALUE context whose resolved option is boolean the value
\* candidates are exactly "false", "true", whatever allowed values the option
\* declares and whatever the key and the parent are; the hints are those of
\* the two that match the query, both for an empty query.
C4_BooleanValuesAreFalseTrue ==
    (/\ call.op = "getHints"
     /\ call.branch = "value"
     /\ OptionFor(data, ctxInfo).type = "boolean")
    => /\ call.returned = "hints"
       /\ call.values = <<"false", "true">>
       /\ Range(HintTexts(call.hints)) \subseteq {"false", "true"}
       /\ call.query = <<>> => HintTexts(call.hints) = <<"false", "true">>

\* C4 witness: the theme key, typed boolean with a declared allowed value,
\* asked for under a file-extension map
C4_Witness ==
    /\ call.op = "getHints"
    /\ call.branch = "value"
    /\ ctxInfo.keyName = "themes.theme"
    /\ ctxInfo.parentKeyName = "language.fileExtensions"
    /\ OptionFor(data, ctxInfo).type = "boolean"
    /\ OptionFor(data, ctxInfo).values.present
    /\ call.values = <<"false", "true">>

\* C10: with an array-typed entry linting.prefer that declares no allowed
\* values, a VALUE context inside an array, under a known language id and for
\* the key linting.prefer gets as value candidates exactly what the
\* lint-provider registry returns for that language, in its order.
C10_LintProvidersVerbatim ==
    (/\ call.op = "getHints"
     /\ ~ctxInfo.null
     /\ ctxInfo.token.present
     /\ ctxInfo.tokenType = TOKEN_VALUE
     /\ ctxInfo.keyName = "linting.prefer"
     /\ ctxInfo.isArray
     /\ ctxInfo.parentKeyName \in Range(languages)
     /\ Has(data, "linting.prefer")
     /\ OptionFor(data, ctxInfo) = Get(data, "linting.prefer")
     /\ Get(data, "linting.prefer").type = "array"
     /\ ~Get(data, "linting.prefer").values.present)
    => /\ call.returned = "hints"
       /\ call.values = getProviderIDsForLanguage(ctxInfo.parentKeyName)

\* C10 witness: the providers of javascript, two of them, were the candidates
C10_Witness ==
    /\ call.op = "getHints"
    /\ ~ctxInfo.null
    /\ ctxInfo.tokenType = TOKEN_VALUE
    /\ ctxInfo.keyName = "linting.prefer"
    /\ ctxInfo.parentKeyName = "javascript"
    /\ ctxInfo.isArray
    /\ Has(data, "linting.prefer")
    /\ Get(data, "linting.prefer").type = "array"
    /\ ~Get(data, "linting.prefer").values.present
    /\ call.values = <<"JSHint", "ESLint">>

-----------------------------------------------------------------------------
\* Properties of insertion

IsKeyInsertion == call.op = "insertHint" /\ ~call.ctx.null /\ call.ctx.tokenType = TOKEN_KEY

IsValueInsertion ==
    call.op = "insertHint" /\ ~call.ctx.null /\ call.ctx.tokenType = TOKEN_VALUE

\* C5 as stated: the KEY candidate foo of type object, inserted into an empty
\* line at offset 0 without whole-token replacement, gives the line
\* "foo": {} with the cursor between the braces and no new session.
C5_KeyObjectOnEmptyLine ==
    (/\ IsKeyInsertion
     /\ call.before = <<>>
     /\ call.pos.ch = 0
     /\ call.ctx.offset = 0
     /\ ~call.ctx.shouldReplace
     /\ call.completion = "foo"
     /\ call.type = "object")
    => /\ call.line = <<"\"", "f", "o", "o", "\"", ":", " ", "{", "}">>
       /\ call.cursor = Len(call.line) - 1
       /\ call.returned = "false"

\* C6 as stated: a KEY insertion continues the session only for an array or
\* string candidate without whole-token replacement, and not otherwise.
C6_ContinuesOnlyForArrayOrString ==
    IsKeyInsertion =>
        (call.returned = "true"
            <=> (call.type \in {"array", "string"} /\ ~call.ctx.shouldReplace))

\* C6 amended: a KEY insertion returns false exactly for an object candidate
\* and for an array or string candidate under whole-token replacement; it
\* returns true for an array or string candidate otherwise and for every
\* candidate of another type (boolean, number, untyped, unknown tag), with or
\* without whole-token replacement.
C6_ContinuesUnlessObjectOrReplacedBody ==
    IsKeyInsertion =>
        /\ call.returned \in {"true", "false"}
        /\ call.returned = "false"
              <=> \/ call.type = "object"
                  \/ call.type \in {"array", "string"} /\ call.ctx.shouldReplace

\* C6 witness: a boolean key, inserted alone, continues the session
C6_Witness ==
    /\ IsKeyInsertion
    /\ call.type = "boolean"
    /\ ~call.ctx.shouldReplace
    /\ call.returned = "true"

\* The quote character C7 prescribes for a token
ExpectedValueQuote(token) ==
    IF token.string # <<>> /\ token.string[1] \in {"'", "\""}
    THEN token.string[1] ELSE "\""

\* C7: a VALUE candidate that is untyped or string-typed is wrapped in the
\* token's first character when that is ' or ", else in a double quote; a
\* candidate of another type is inserted bare; the session never continues.
C7_ValueQuoting ==
    IsValueInsertion =>
        /\ call.returned = "false"
        /\ call.text =
              IF call.type \in {Undefined, "string"}
              THEN <<ExpectedValueQuote(call.ctx.token)>> \o Chars(call.completion)
                       \o <<ExpectedValueQuote(call.ctx.token)>>
              ELSE Chars(call.completion)
        /\ (/\ call.type = Undefined
            /\ call.completion = "bar"
            /\ call.ctx.token.string = <<"'", "b", "'">>
            /\ call.ctx.shouldReplace)
           => call.line = SubSeq(call.before, 1, call.ctx.token.start)
                              \o <<"'", "b", "a", "r", "'">>

\* C7 witness: untyped bar over the token 'b', replacing the whole token
C7_Witness ==
    /\ IsValueInsertion
    /\ call.type = Undefined
    /\ call.completion = "bar"
    /\ call.ctx.token.string = <<"'", "b", "'">>
    /\ call.ctx.shouldReplace
    /\ call.text = <<"'", "b", "a", "r", "'">>
    /\ call.returned = "false"

\* C8: for a VALUE insertion the replaced span is the point at the cursor when
\* the token is white-space or a placeholder, even under whole-token
\* replacement; else the whole token under whole-token replacement; else from
\* cursor minus offset to the token's end; it lies on the cursor's line.
C8_ValueSpanPriority ==
    IsValueInsertion =>
        /\ call.startLine = call.pos.line
        /\ call.endLine = call.pos.line
        /\ IF regexAllowedChars(call.ctx.token.string)
           THEN call.startCh = call.pos.ch /\ call.endCh = call.pos.ch
           ELSE IF call.ctx.shouldReplace
           THEN call.startCh = call.ctx.token.start /\ call.endCh = call.ctx.token.end
           ELSE /\ call.startCh = call.pos.ch - call.ctx.offset
                /\ call.endCh = call.ctx.token.end

\* C8 witness: a white-space token under whole-token replacement, cursor
\* after it: the span is the point at the cursor, not the token
C8_Witness ==
    /\ IsValueInsertion
    /\ call.ctx.token.string = <<" ">>
    /\ call.ctx.shouldReplace
    /\ call.pos.ch = call.ctx.token.end
    /\ call.startCh = call.pos.ch
    /\ call.endCh = call.pos.ch
    /\ call.startCh # call.ctx.token.start

\* C9 as stated: insertHint never raises and always returns a boolean, for a
\* null context and a context that is neither KEY nor VALUE as for the others,
\* and a key token without a leading quote is wrapped in the default quote.
C9_InsertNeverRaises ==
    call.op = "insertHint" =>
        /\ ~call.raised
        /\ call.returned \in {"true", "false"}
        /\ (IsKeyInsertion /\ FirstChar(call.ctx.token.string) \notin {"'", "\""})
              => Head(call.text) = "\""

-----------------------------------------------------------------------------
\* Properties of the registry

HasBuiltins(d) == Has(d, "language") /\ Has(d, "path")

\* The entry `name` of d is the built-in one amended by the preference of
\* that name in `preferences`: untouched when there is none or it is kept out
\* of the hints, else property by property the preference's where it defines
\* one and the built-in's where it does not
MergedFrom(d, preferences, name) ==
    LET builtin == Get(BuiltinData, name) IN
    /\ Has(d, name)
    /\ IF Has(preferences, name) /\ ~Get(preferences, name).excludeFromHints
       THEN LET preference == Get(preferences, name)
                entry == Get(d, name)
            IN  /\ entry.type = IF preference.type # Undefined
                                THEN preference.type ELSE builtin.type
                /\ entry.description = IF preference.description # Undefined
                                       THEN preference.description
                                       ELSE builtin.description
                /\ entry.keys = preference.keys
                /\ entry.values = preference.values
           ELSE Get(d, name) = builtin

\* Every preference that is not kept out of the hints has its entry
NothingDropped(d, preferences) ==
    \A i \in 1..Len(preferences) :
        ~preferences[i][2].excludeFromHints => Has(d, preferences[i][1])

\* d is what the constructor builds from `preferences`, with both built-in
\* entries merged and no preference lost
BuiltFrom(d, preferences) ==
    /\ d = PrefsCodeHints(preferences)
    /\ MergedFrom(d, preferences, "language")
    /\ MergedFrom(d, preferences, "path")
    /\ NothingDropped(d, preferences)

\* C11 as stated: in every reachable state, after any operation on the
\* module, the registry has the root entries language and path.
\* _setupTestEnvironment installs the object it is given as the registry.
C11_BuiltinsAlwaysPresent == HasBuiltins(data)

\* C11 amended: in every reachable state the registry is either the one the
\* constructor built, which has language and path, each the built-in entry
\* amended by the preference of that name if one is defined and not kept out
\* of the hints, and has every other preference's entry; or it is the object
\* last given to _setupTestEnvironment.  No lookup and no notification
\* changes it.
C11_BuiltinsMergedUntilReplaced ==
    \/ data \in TestPreferences
    \/ /\ HasBuiltins(data)
       /\ \E preferences \in PreferenceSets : BuiltFrom(data, preferences)

\* C11 witness: after a lookup, a registry built from preferences that define
\* language (nested keys, no description) and keep path out of the hints
C11_Witness ==
    /\ call.op = "getHints"
    /\ data = PrefsCodeHints(OddPreferences)
    /\ Has(OddPreferences, "language")
    /\ Get(OddPreferences, "path").excludeFromHints
    /\ Get(data, "language").description = "DESCRIPTION_LANGUAGE"
    /\ Get(data, "language").keys.present
    /\ Get(data, "path") = Leaf("object", "DESCRIPTION_PATH")

-----------------------------------------------------------------------------
\* Properties of key candidates

\* The text typed up to the cursor, without quotes and outer white-space
TypedText(ctx) == trim(stripQuotes(substr0(ctx.token.string, ctx.offset)))

\* Nothing to match against: nothing typed, or a lone separator / white-space
\* that is not part of a bare token
QueryIsEmpty(ctx) == TypedText(ctx) = <<>> \/ regexAllowedChars(TypedText(ctx))

KeyNamesOf(keys) == {keys[i][1] : i \in 1..Len(keys)}

IsKeyLookup ==
    /\ call.op = "getHints"
    /\ ~ctxInfo.null
    /\ ctxInfo.token.present
    /\ ctxInfo.tokenType = TOKEN_KEY

\* C12: for a KEY context whose query is empty, also when it was reset to
\* empty, getHints returns every key of the selected source that is not in
\* the exclusion list, each once, and nothing else.
C12_EmptyQueryOffersEveryEligibleKey ==
    (IsKeyLookup /\ QueryIsEmpty(ctxInfo)) =>
        /\ call.returned = "hints"
        /\ call.query = <<>>
        /\ Range(HintTexts(call.hints))
              = KeyNamesOf(KeysFor(data, languages, ctxInfo))
                    \ Range(ctxInfo.exclusionList)
        /\ Len(call.hints) = Cardinality(Range(HintTexts(call.hints)))

\* C12 witness: a colon under the cursor, the query reset to empty, the keys
\* nested under closeTags as the source and whenOpening excluded
C12_Witness ==
    /\ IsKeyLookup
    /\ ctxInfo.token.string = <<":">>
    /\ TypedText(ctxInfo) # <<>>
    /\ call.query = <<>>
    /\ call.source = "nested"
    /\ "whenOpening" \in Range(ctxInfo.exclusionList)
    /\ HintTexts(call.hints) = <<"indentTags">>

\* The entry a key candidate was taken from, as C13 names the three sources
HasNestedKeyMap(d, name) == Has(d, name) /\ Get(d, name).keys.present

\* A hinted item is the entry `name` of the map `keys`, with its own type
\* and description
CarriesOwnEntry(item, keys) ==
    /\ Has(keys, item.text)
    /\ item.type = Get(keys, item.text).type
    /\ item.description = Get(keys, item.text).description

\* C13: in a KEY context the keys come from the nested-key map of the entry
\* named parentKeyName when the registry has that entry with such a map; else,
\* for the parent "language", from the known language identifiers, each
\* tagged object; else from the root of the registry.  Every candidate has
\* the type and the description of its own entry.
C13_KeySourcePriority ==
    IsKeyLookup =>
        LET parent == ctxInfo.parentKeyName IN
        IF HasNestedKeyMap(data, parent)
        THEN /\ call.source = "nested"
             /\ \A i \in 1..Len(call.hints) :
                    CarriesOwnEntry(call.hints[i], Get(data, parent).keys.map)
        ELSE IF parent = "language"
        THEN /\ call.source = "languages"
             /\ \A i \in 1..Len(call.hints) :
                    /\ call.hints[i].text \in Range(languages)
                    /\ call.hints[i].type = "object"
        ELSE /\ call.source = "root"
             /\ \A i \in 1..Len(call.hints) : CarriesOwnEntry(call.hints[i], data)

\* C13 witness: under the parent "language", in a registry whose language
\* entry has nested keys, the nested key css is offered, not the language ids
C13_Witness ==
    /\ IsKeyLookup
    /\ ctxInfo.parentKeyName = "language"
    /\ HasNestedKeyMap(data, "language")
    /\ call.source = "nested"
    /\ HintTexts(call.hints) = <<"css">>
    /\ call.hints[1].description = "DESCRIPTION_CSS"
    /\ "javascript" \in Range(languages)

-----------------------------------------------------------------------------
\* Properties of value candidates

IsValueLookup ==
    /\ call.op = "getHints"
    /\ ~ctxInfo.null
    /\ ctxInfo.token.present
    /\ ctxInfo.tokenType = TOKEN_VALUE

\* The option C14 resolves: the entry keyName nested under parentKeyName,
\* else the root entry keyName, else none
ResolvedOption(d, ctx) ==
    IF HasNestedKeyMap(d, ctx.parentKeyName)
          /\ Has(Get(d, ctx.parentKeyName).keys.map, ctx.keyName)
    THEN Get(Get(d, ctx.parentKeyName).keys.map, ctx.keyName)
    ELSE IF Has(d, ctx.keyName) THEN Get(d, ctx.keyName)
    ELSE DefaultOption

\* The conditions of the five sources, in the order of C14
SourceApplies(source, option, langs, ctx) ==
    CASE source = "boolean" -> option.type = "boolean"
      [] source = "values" ->
            /\ option.values.present
            /\ \/ option.type \in {"number", "string"}
               \/ option.type = "array" /\ ctx.isArray
      [] source = "lint" ->
            /\ ctx.isArray
            /\ ctx.keyName = "linting.prefer"
            /\ ctx.parentKeyName \in Range(langs)
      [] source = "themes" -> ctx.keyName = "themes.theme"
      [] source = "languages" ->
            ctx.parentKeyName \in {"language.fileExtensions", "language.fileNames"}

SourcePriority == <<"boolean", "values", "lint", "themes", "languages">>

\* The first source that applies, "none" when none does
FirstSource(option, langs, ctx) ==
    LET applying == {i \in 1..Len(SourcePriority) :
                        SourceApplies(SourcePriority[i], option, langs, ctx)}
    IN  IF applying = {} THEN "none"
        ELSE SourcePriority[CHOOSE i \in applying : \A j \in applying : i <= j]

\* The candidates of a source; numbers of an allowed-value list as their text
CandidatesOf(source, option, langs, ctx) ==
    CASE source = "boolean" -> <<"false", "true">>
      [] source = "values" ->
            [i \in 1..Len(option.values.list) |-> toString(option.values.list[i])]
      [] source = "lint" -> getProviderIDsForLanguage(ctx.parentKeyName)
      [] source = "themes" -> ThemeNames
      [] source = "languages" -> langs
      [] OTHER -> <<>>

\* C14: in a VALUE context the option is resolved nested-first and the
\* candidates come from the first source that applies, in the order boolean,
\* allowed values, lint providers, theme names, language identifiers; when
\* none applies getHints produces no candidate and returns without raising.
C14_ValueSourcePriority ==
    IsValueLookup =>
        LET option == ResolvedOption(data, ctxInfo)
            source == FirstSource(option, languages, ctxInfo)
        IN  /\ call.branch = "value"
            /\ call.source = source
            /\ call.values = CandidatesOf(source, option, languages, ctxInfo)
            /\ Range(HintTexts(call.hints)) \subseteq Range(call.values)
            /\ source = "none" => call.returned = "null" /\ call.hints = <<>>
            /\ source # "none" => call.returned = "hints"

\* C14 witness: linting.prefer inside an array under the known language css,
\* resolved to the root option that declares allowed values: the allowed
\* values win over the lint providers of css, which also apply
C14_Witness ==
    /\ IsValueLookup
    /\ ctxInfo.keyName = "linting.prefer"
    /\ ctxInfo.parentKeyName = "css"
    /\ ctxInfo.isArray
    /\ "css" \in Range(languages)
    /\ ResolvedOption(data, ctxInfo).values.present
    /\ call.source = "values"
    /\ call.values = <<"ESLint">>
    /\ getProviderIDsForLanguage("css") # <<>>

-----------------------------------------------------------------------------
\* Properties of the cursor after a key insertion

\* A paired opener was appended after the key: a body type, and no
\* whole-token replacement
BodyAppended == call.type \in {"object", "array", "string"} /\ ~call.ctx.shouldReplace

\* The cursor lies between the two characters of a pair that ends the
\* inserted text
CursorInsidePair ==
    /\ call.cursor = call.startCh + Len(call.text) - 1
    /\ <<call.line[call.cursor], call.line[call.cursor + 1]>>
          \in {<<"{", "}">>, <<"[", "]">>, <<"\"", "\"">>}

\* C15 as stated: after a KEY insertion insertHint sets the cursor exactly
\* when a paired opener was appended, and then between the pair's two
\* characters; when none was appended (boolean, number, untyped candidate, or
\* whole-token replacement) it does not move the cursor into the inserted key
\* text.  Lines 363-364 set the cursor for every object, array or string
\* candidate, under whole-token replacement too, where it lands in front of
\* the key's closing quote.
C15_CursorMovesOnlyIntoAppendedPair ==
    IsKeyInsertion =>
        /\ call.cursorSet <=> BodyAppended
        /\ BodyAppended => CursorInsidePair
        /\ ~BodyAppended =>
              ~(call.startCh < call.cursor /\ call.cursor < call.startCh + Len(call.text))

-----------------------------------------------------------------------------
\* Properties of the activation flags under notifications

\* The cached flag is what _isPrefHintsEnabled would answer now
FlagIsCurrent ==
    isPrefHintsEnabled
        <=> (isPrefDocument /\ showCodeHints # "false" /\ codehintPrefHints # "false")

ActiveEditorShowsPreferences ==
    activeEditor # NoEditor /\ IsPrefDocumentName(activeEditor)

HasHintsOnlyForPreferences ==
    (call.op = "hasHints" /\ call.result) => ActiveEditorShowsPreferences

\* C16 as stated: after any interleaving of the three notifications the cached
\* flag is current, isPrefDocument tells whether the active editor's document
\* is a preferences document (false when no editor is active), and hasHints
\* answers true only for an active preferences document.  A notification
\* without an editor leaves isPrefDocument as it was.
C16_FlagsTellActiveDocument ==
    /\ FlagIsCurrent
    /\ isPrefDocument <=> ActiveEditorShowsPreferences
    /\ HasHintsOnlyForPreferences

\* What the notifications do keep: the cached flag is current, and while an
\* editor is active isPrefDocument tells whether its document is a
\* preferences document, so hasHints asked about the active editor answers
\* true only for one
FlagsFollowLastEditor ==
    /\ FlagIsCurrent
    /\ activeEditor # NoEditor => (isPrefDocument <=> IsPrefDocumentName(activeEditor))
    /\ HasHintsOnlyForPreferences

\* Holds under SpecNotify: the above in every state, and a notification
\* without an editor leaves isPrefDocument as it was
NotificationsKeepFlags ==
    /\ FlagsFollowLastEditor
    /\ [][/\ FlagsFollowLastEditor'
          /\ activeEditor' = NoEditor => isPrefDocument' = isPrefDocument]_vars

\* Violated under SpecNotify: the preferences document was active, then no
\* editor is, and both flags are still set
NoStaleFlags ==
    ~(/\ call.op = "activeEditorChange"
      /\ activeEditor = NoEditor
      /\ isPrefDocument
      /\ isPrefHintsEnabled)

====
